---- MODULE Spec2Model ----
(***************************************************************************)
(* A model of genome-install: the streaming gunzip reader (StreamGunZip),  *)
(* the chunked pump into the makeblastdb child (MakeBlastDB), and the      *)
(* batch driver (script/get_genomes.py).                                   *)
(*                                                                         *)
(* Six specifications share the variables:                                 *)
(*   Spec        one MakeBlastDB(input, kwargs).make(kwargs) run,          *)
(*               statement by statement, over gzip, multi-member, corrupt  *)
(*               and empty sources                                         *)
(*   SpecConfig  the same run over every combination of option names       *)
(*   SpecLive    the run without decompression, under fair scheduling      *)
(*   SpecDownload  one download_and_make(url, kwargs) call around a run    *)
(*   SpecReader  iteration of a StreamGunZip with next()                   *)
(*   SpecDriver  the loop of main() over the assemblies of a batch         *)
(***************************************************************************)
EXTENDS Integers, Sequences, FiniteSets, TLC

VARIABLES
    \* ---- the byte source and the decompressor (blastdb.py) -------------
    input,      \* what the source holds: [kind, members, raw] (never changes)
    stream,     \* raw bytes the source has not yet handed out
    zs,         \* state of the zlib decompressobj held in StreamGunZip.d
    \* ---- StreamGunZip used as an iterator ------------------------------
    rpc,        \* "idle" | "iter" | "stopped" | "raised"
    rchunk,     \* StreamGunZip.chunk_size
    chunks,     \* concatenation of the chunks next() has returned
    \* ---- one MakeBlastDB run -------------------------------------------
    pc,         \* position in __init__ / make / communicate
    ctor_kw,    \* keyword arguments of the constructor MakeBlastDB
    make_kw,    \* keyword arguments of MakeBlastDB.make
    self,       \* the object's option fields
    data,       \* local variable data of communicate
    proc,       \* the child: [spawned, args, stdin, waits]
    events,     \* what was done to the child and the source, in order
    written,    \* all bytes written to the child's stdin, concatenated
    result,     \* <<v>> once make has returned v, <<>> before
    err,        \* exception that left the run, "None" while there is none
    stderr,     \* lines communicate wrote to sys.stderr
    wlist,      \* local variable wlist of communicate: what select reported
    platform,   \* platform.system()
    net,        \* the response urlopen gave download_and_make: "none" | "open" | "closed"
    dresult,    \* <<v>> once download_and_make has returned v, <<>> before
    \* ---- the batch driver (get_genomes.py main) ------------------------
    dpc,        \* "idle" | "start" | "try" | "check" | "exited" | "raised" | "done"
    batch,      \* batch[q]: the repository get_latest_assemblies gives for query q
    filter,     \* options['filter']: the species to skip
    plan,       \* the assemblies main will visit, in order
    idx,        \* index in plan of the assembly being handled
    counter,    \* local variable counter of main
    r,          \* local variable r of main: <<v>>, or <<>> while unbound
    calls,      \* calls[i]: outcomes of download_and_make for plan[i], in order
    stdout,     \* lines main wrote to sys.stdout
    exitinfo    \* how main ended: [kind, value]

readerVars == <<input, stream, zs>>
iterVars   == <<rpc, rchunk, chunks>>
pumpVars   == <<pc, ctor_kw, make_kw, self, data, proc, events, written,
                result, err, stderr, wlist, platform, net, dresult>>
driverVars == <<dpc, batch, filter, plan, idx, counter, r, calls, stdout, exitinfo>>
vars       == <<readerVars, iterVars, pumpVars, driverVars>>

----------------------------------------------------------------------------
(* Bounds of the model *)

\* longest payload of one gzip member, in bytes
MaxLen == 2
\* largest explicit chunk_size option
MaxChunk == 3
\* raw bytes of a gzip member header (10 in the format, scaled down)
GzHeaderLen == 2
\* raw bytes of a gzip member trailer (8 in the format, scaled down)
GzTrailerLen == 1
\* most option names given to the constructor, and to make
MaxCtorKw == 5
MaxMakeKw == 1
\* most queries on the command line, and most assembly paths in a batch
MaxQueries == 2
MaxAssemblies == 2

----------------------------------------------------------------------------
(* Sequences *)

RECURSIVE Flatten(_)
Flatten(ss) == IF Len(ss) = 0 THEN <<>> ELSE Head(ss) \o Flatten(Tail(ss))

Take(s, n) == SubSeq(s, 1, IF n < Len(s) THEN n ELSE Len(s))
Drop(s, n) == SubSeq(s, (IF n < Len(s) THEN n ELSE Len(s)) + 1, Len(s))

SeqsUpTo(S, n) == UNION {[1..k -> S] : k \in 0..n}

----------------------------------------------------------------------------
(* gzip, as zlib produces and consumes it.  A raw byte is one of           *)
(*   H  a byte of the member header                                        *)
(*   B  the deflate block header: consumed, produces no output             *)
(*   L  a deflate symbol: b repeated n times on output                     *)
(*   T  a byte of the member trailer (CRC and length)                      *)
(*   X  a byte no gzip stream holds at that place                          *)

Bytes == {"a", "b"}

Raw(t, b, n) == [t |-> t, b |-> b, n |-> n]
HdrByte == Raw("H", "-", 0)
BlkByte == Raw("B", "-", 0)
TrlByte == Raw("T", "-", 0)
BadByte == Raw("X", "-", 0)

Rep(x, n) == [i \in 1..n |-> x]

\* the deflate body: a run of two equal bytes becomes one symbol
RECURSIVE Deflate(_)
Deflate(p) ==
    IF Len(p) = 0 THEN <<>>
    ELSE IF Len(p) >= 2 /\ p[1] = p[2]
         THEN <<Raw("L", p[1], 2)>> \o Deflate(Drop(p, 2))
         ELSE <<Raw("L", p[1], 1)>> \o Deflate(Tail(p))

\* gzip.compress(p): one member
Compress(p) ==
    Rep(HdrByte, GzHeaderLen) \o <<BlkByte>> \o Deflate(p) \o Rep(TrlByte, GzTrailerLen)

\* zlib.decompressobj(zlib.MAX_WBITS|32): a fresh decompressor
ZInit == [phase |-> "hdr", n |-> 0]

\* the decompressor after n trailer bytes of the member
ZTrailer(n) ==
    IF n = GzTrailerLen THEN [phase |-> "end", n |-> 0] ELSE [phase |-> "trl", n |-> n]

\* the decompressor fed one raw byte: [zs, out, ok]
ZStep(z, x) ==
    CASE z.phase = "hdr" ->
            IF x.t = "H"
            THEN [zs  |-> IF z.n + 1 = GzHeaderLen
                          THEN [phase |-> "body", n |-> 0]
                          ELSE [phase |-> "hdr", n |-> z.n + 1],
                  out |-> <<>>, ok |-> TRUE]
            ELSE [zs |-> z, out |-> <<>>, ok |-> FALSE]
      [] z.phase = "body" ->
            CASE x.t = "L" -> [zs |-> z, out |-> Rep(x.b, x.n), ok |-> TRUE]
              [] x.t = "B" -> [zs |-> z, out |-> <<>>, ok |-> TRUE]
              [] x.t = "T" ->
                    [zs |-> ZTrailer(1), out |-> <<>>, ok |-> TRUE]
              [] OTHER -> [zs |-> z, out |-> <<>>, ok |-> FALSE]
      [] z.phase = "trl" ->
            IF x.t = "T"
            THEN [zs |-> ZTrailer(z.n + 1), out |-> <<>>, ok |-> TRUE]
            ELSE [zs |-> z, out |-> <<>>, ok |-> FALSE]
      \* the member has ended: what follows goes to unused_data, no output
      [] OTHER -> [zs |-> z, out |-> <<>>, ok |-> TRUE]

\* d(raw): the decompressobj's decompress on a block of raw bytes
RECURSIVE ZDecompress(_, _)
ZDecompress(z, raw) ==
    IF Len(raw) = 0 THEN [zs |-> z, out |-> <<>>, ok |-> TRUE]
    ELSE LET s == ZStep(z, Head(raw)) IN
         IF ~s.ok THEN s
         ELSE LET rest == ZDecompress(s.zs, Tail(raw)) IN
              [zs |-> rest.zs, out |-> s.out \o rest.out, ok |-> rest.ok]

\* stream.read(n): [data, stream]
StreamRead(s, n) == [data |-> Take(s, n), stream |-> Drop(s, n)]

\* StreamGunZip.decompress(chunk_size): [data, stream, zs, ok]
GunZipDecompress(s, z, n) ==
    LET rd == StreamRead(s, n)
        d  == ZDecompress(z, rd.data)
    IN  [data |-> d.out, stream |-> rd.stream, zs |-> d.zs, ok |-> d.ok]

----------------------------------------------------------------------------
(* The sources a run is given *)

Payloads == SeqsUpTo(Bytes, MaxLen)

Corrupt(raw, i) == [raw EXCEPT ![i] = BadByte]

GzipSources ==
    {[kind |-> "gzip", members |-> <<p>>, raw |-> Compress(p)] : p \in Payloads}
MultiSources ==
    {[kind |-> "multi", members |-> <<pq[1], pq[2]>>,
      raw |-> Compress(pq[1]) \o Compress(pq[2])] :
        pq \in {x \in Payloads \X Payloads : Len(x[1]) + Len(x[2]) <= MaxLen}}
CorruptSources ==
    UNION {{[kind |-> "corrupt", members |-> <<p>>, raw |-> Corrupt(Compress(p), i)] :
              i \in 1..Len(Compress(p))} : p \in Payloads}
EmptySource == [kind |-> "empty", members |-> <<>>, raw |-> <<>>]

Sources == GzipSources \cup MultiSources \cup CorruptSources \cup {EmptySource}

\* what the source decompresses to
Payload(src) == Flatten(src.members)

----------------------------------------------------------------------------
(* MakeBlastDB: options *)

OptionNames ==
    {"input", "out", "title", "dbtype", "parse_seqids", "decompress", "chunk_size"}
UnknownName == "bogus"

\* a keyword-argument dictionary: the names given, and the value of each
\* (a name not given carries the first value below, which is never read)
KwargsOver(names, maxKeys, chunkSizes) ==
    {[keys |-> K, input |-> "f.fa", out |-> "x", title |-> "x", dbtype |-> "nucl",
      parse_seqids |-> ps, decompress |-> dc, chunk_size |-> cs] :
        K  \in {S \in SUBSET names : Cardinality(S) <= maxKeys},
        ps \in BOOLEAN, dc \in BOOLEAN, cs \in chunkSizes}

Normal(kw, chunkSizes) ==
    /\ "parse_seqids" \notin kw.keys => kw.parse_seqids
    /\ "decompress" \notin kw.keys => kw.decompress
    /\ "chunk_size" \notin kw.keys => \A cs \in chunkSizes : kw.chunk_size <= cs

Kwargs(names, maxKeys, chunkSizes) ==
    {kw \in KwargsOver(names, maxKeys, chunkSizes) : Normal(kw, chunkSizes)}

NoKwargs == CHOOSE kw \in Kwargs({}, 0, {MaxChunk}) : TRUE

\* MakeBlastDB.set_defaults
set_defaults(executable) ==
    [executable |-> executable, _in |-> "-", out |-> "None", title |-> "None",
     dbtype |-> "None", parse_seqids |-> FALSE, decompress |-> FALSE,
     chunk_size |-> 16 * 1024]

\* set_options with the title branch assigning to out
SetOption_TitleToOut(obj, kw, k) ==
    CASE k = "input"        -> [obj EXCEPT !._in = kw.input]
      [] k = "out"          -> [obj EXCEPT !.out = kw.out]
      [] k = "title"        -> [obj EXCEPT !.out = kw.title]
      [] k = "dbtype"       -> [obj EXCEPT !.dbtype = kw.dbtype]
      [] k = "parse_seqids" -> [obj EXCEPT !.parse_seqids = kw.parse_seqids]
      [] k = "decompress"   -> [obj EXCEPT !.decompress = kw.decompress]
      [] k = "chunk_size"   -> [obj EXCEPT !.chunk_size = kw.chunk_size]

\* one pass of the loop of set_options, for a recognised name k
SetOption(obj, kw, k) ==
    CASE k = "input"        -> [obj EXCEPT !._in = kw.input]
      [] k = "out"          -> [obj EXCEPT !.out = kw.out]
      [] k = "title"        -> [obj EXCEPT !.title = kw.title]
      [] k = "dbtype"       -> [obj EXCEPT !.dbtype = kw.dbtype]
      [] k = "parse_seqids" -> [obj EXCEPT !.parse_seqids = kw.parse_seqids]
      [] k = "decompress"   -> [obj EXCEPT !.decompress = kw.decompress]
      [] k = "chunk_size"   -> [obj EXCEPT !.chunk_size = kw.chunk_size]

\* the passes of the loop for the names in visited (each sets its own field)
RECURSIVE SetOptions(_, _, _)
SetOptions(obj, kw, visited) ==
    IF visited = {} THEN obj
    ELSE LET k == CHOOSE x \in visited : TRUE
         IN  SetOptions(SetOption(obj, kw, k), kw, visited \ {k})

\* the names set_options may have visited when it returns or raises: all of
\* them when all are recognised, else those the dictionary's order puts
\* before the first unrecognised one
Visited(kw) ==
    IF kw.keys \subseteq OptionNames THEN {kw.keys}
    ELSE SUBSET (kw.keys \cap OptionNames)

\* get_command_args with -title put before -out
get_command_args_TitleFirst(obj) ==
    <<obj.executable, "-in", obj._in>>
    \o (IF obj.title # "None" THEN <<"-title", obj.title>> ELSE <<>>)
    \o (IF obj.out # "None" THEN <<"-out", obj.out>> ELSE <<>>)
    \o (IF obj.dbtype # "None" THEN <<"-dbtype", obj.dbtype>> ELSE <<>>)
    \o (IF obj.parse_seqids THEN <<"-parse_seqids">> ELSE <<>>)

\* MakeBlastDB.get_command_args
get_command_args(obj) ==
    <<obj.executable, "-in", obj._in>>
    \o (IF obj.out # "None" THEN <<"-out", obj.out>> ELSE <<>>)
    \o (IF obj.title # "None" THEN <<"-title", obj.title>> ELSE <<>>)
    \o (IF obj.dbtype # "None" THEN <<"-dbtype", obj.dbtype>> ELSE <<>>)
    \o (IF obj.parse_seqids THEN <<"-parse_seqids">> ELSE <<>>)

----------------------------------------------------------------------------
(* MakeBlastDB: one run of the constructor and of make *)

Platforms == {"Linux", "Windows"}

\* __init__, lines 23-24: the name of the executable
Executable(system) == IF system = "Windows" THEN "makeblastdb.exe" ELSE "makeblastdb"

\* exit statuses of the child as Popen.wait reports them (negative: a signal)
ExitStatuses == {0, 1, -9}

NoProc == [spawned |-> 0, args |-> <<>>, stdin |-> "none", waits |-> <<>>]

\* _read(), as communicate binds it: [data, stream, zs, ok]
ReadChunk(obj, s, z) ==
    IF obj.decompress
    THEN GunZipDecompress(s, z, obj.chunk_size)
    ELSE LET rd == StreamRead(s, obj.chunk_size)
         IN  [data |-> rd.data, stream |-> rd.stream, zs |-> z, ok |-> TRUE]

\* a loop test that never sees the end of the data
Truthy_Always(d) == TRUE

\* "while data:" / "if not data:"
Truthy(d) == Len(d) > 0

\* __init__: set_defaults, then set_options(kwargs)
Construct ==
    /\ pc = "new"
    /\ \E visited \in Visited(ctor_kw) :
          self' = SetOptions(set_defaults(Executable(platform)), ctor_kw, visited)
    /\ IF ctor_kw.keys \subseteq OptionNames
       THEN pc' = "constructed" /\ err' = err
       ELSE pc' = "raised" /\ err' = "ValueError"
    /\ UNCHANGED <<readerVars, iterVars, driverVars, ctor_kw, make_kw, data, proc,
                   events, written, result, stderr, wlist, platform, net, dresult>>

\* make with open_process called before set_options
MakeSetOptions_AfterSpawn ==
    /\ pc = "constructed"
    /\ \E visited \in Visited(make_kw) : self' = SetOptions(self, make_kw, visited)
    /\ IF make_kw.keys \subseteq OptionNames
       THEN pc' = "open" /\ err' = err /\ proc' = proc
       ELSE /\ pc' = "raised"
            /\ err' = "ValueError"
            /\ proc' = [proc EXCEPT !.spawned = @ + 1, !.stdin = "open"]
    /\ UNCHANGED <<readerVars, iterVars, driverVars, ctor_kw, make_kw, data,
                   events, written, result, stderr, wlist, platform, net, dresult>>

\* make, line 144: set_options(kwargs)
MakeSetOptions ==
    /\ pc = "constructed"
    /\ \E visited \in Visited(make_kw) : self' = SetOptions(self, make_kw, visited)
    /\ IF make_kw.keys \subseteq OptionNames
       THEN pc' = "open" /\ err' = err
       ELSE pc' = "raised" /\ err' = "ValueError"
    /\ UNCHANGED <<readerVars, iterVars, driverVars, ctor_kw, make_kw, data, proc,
                   events, written, result, stderr, wlist, platform, net, dresult>>

\* make, line 147: open_process; Popen raises OSError when it cannot spawn
OpenProcess ==
    /\ pc = "open"
    /\ \/ /\ proc' = [spawned |-> proc.spawned + 1, args |-> get_command_args(self),
                      stdin |-> "open", waits |-> <<>>]
          /\ events' = Append(events, "spawn")
          /\ pc' = "first_read"
          /\ err' = err
       \/ /\ pc' = "raised"
          /\ err' = "OSError"
          /\ UNCHANGED <<proc, events>>
    /\ UNCHANGED <<readerVars, iterVars, driverVars, ctor_kw, make_kw, self, data,
                   written, result, stderr, wlist, platform, net, dresult>>

\* communicate, lines 106-117: bind _read (a fresh StreamGunZip), read the
\* first chunk, and leave for the close when it is empty
FirstRead ==
    /\ pc = "first_read"
    /\ LET rd == ReadChunk(self, stream, ZInit) IN
          /\ stream' = rd.stream
          /\ zs' = rd.zs
          /\ events' = Append(events, "read")
          /\ IF ~rd.ok
             THEN pc' = "raised" /\ err' = "zlib.error" /\ UNCHANGED <<data, stderr>>
             ELSE /\ data' = rd.data
                  /\ err' = err
                  /\ IF Truthy(rd.data)
                     THEN pc' = "select" /\ stderr' = stderr
                     ELSE /\ pc' = "close"
                          /\ stderr' = Append(stderr, "MakeBlastDB: null input")
    /\ UNCHANGED <<input, iterVars, driverVars, ctor_kw, make_kw, self, proc,
                   written, result, wlist, platform, net, dresult>>

\* what select can report for wlist
WLists == {<<>>, <<"stdin">>}

\* "self.proc.stdin in wlist"
InWlist(w) == Len(w) > 0

\* communicate writing whatever select reports
Select_IgnoresWlist ==
    /\ pc = "select"
    /\ \E w \in WLists :
          /\ wlist' = w
          /\ events' = IF InWlist(w) THEN Append(events, "ready") ELSE events
    /\ pc' = "write"
    /\ UNCHANGED <<readerVars, iterVars, driverVars, ctor_kw, make_kw, self, data,
                   proc, written, result, err, stderr, platform, net, dresult>>

\* communicate with the next read outside the "if stdin in wlist" block
Select_ReadsAnyway ==
    /\ pc = "select"
    /\ \E w \in WLists :
          /\ wlist' = w
          /\ events' = IF InWlist(w) THEN Append(events, "ready") ELSE events
          /\ pc' = IF InWlist(w) THEN "write" ELSE "read"
    /\ UNCHANGED <<readerVars, iterVars, driverVars, ctor_kw, make_kw, self, data,
                   proc, written, result, err, stderr, platform, net, dresult>>

\* communicate, lines 120-122: select on stdin; when stdin is not in wlist the
\* loop comes back to the select with data unchanged
Select ==
    /\ pc = "select"
    /\ \E w \in WLists :
          /\ wlist' = w
          /\ events' = IF InWlist(w) THEN Append(events, "ready") ELSE events
          /\ pc' = IF InWlist(w) THEN "write" ELSE "select"
    /\ UNCHANGED <<readerVars, iterVars, driverVars, ctor_kw, make_kw, self, data,
                   proc, written, result, err, stderr, platform, net, dresult>>

\* communicate, line 123: stdin.write(data); IOError when the child is gone
Write ==
    /\ pc = "write"
    /\ \/ /\ written' = written \o data
          /\ events' = Append(events, "write")
          /\ pc' = "flush"
          /\ err' = err
       \/ /\ pc' = "raised"
          /\ err' = "IOError"
          /\ UNCHANGED <<written, events>>
    /\ UNCHANGED <<readerVars, iterVars, driverVars, ctor_kw, make_kw, self, data,
                   proc, result, stderr, wlist, platform, net, dresult>>

\* communicate, lines 126-128: flush stdin (and the parent's own streams)
Flush ==
    /\ pc = "flush"
    /\ events' = Append(events, "flush")
    /\ pc' = "read"
    /\ UNCHANGED <<readerVars, iterVars, driverVars, ctor_kw, make_kw, self, data,
                   proc, written, result, err, stderr, wlist, platform, net, dresult>>

\* communicate, lines 129-132 and the loop test: read the next chunk
\* (decompress never raises StopIteration, so the except clause is not taken)
Read ==
    /\ pc = "read"
    /\ LET rd == ReadChunk(self, stream, zs) IN
          /\ stream' = rd.stream
          /\ zs' = rd.zs
          /\ events' = Append(events, "read")
          /\ IF ~rd.ok
             THEN pc' = "raised" /\ err' = "zlib.error" /\ data' = data
             ELSE /\ data' = rd.data
                  /\ err' = err
                  /\ pc' = IF Truthy(rd.data) THEN "select" ELSE "close"
    /\ UNCHANGED <<input, iterVars, driverVars, ctor_kw, make_kw, self, proc,
                   written, result, stderr, wlist, platform, net, dresult>>

\* communicate going to the wait with stdin left open
Close_LeavesOpen ==
    /\ pc = "close"
    /\ pc' = "wait"
    /\ UNCHANGED <<readerVars, iterVars, driverVars, ctor_kw, make_kw, self, data,
                   proc, events, written, result, err, stderr, wlist, platform, net, dresult>>

\* communicate, lines 116 and 135: proc.stdin.close()
Close ==
    /\ pc = "close"
    /\ proc' = [proc EXCEPT !.stdin = "closed"]
    /\ events' = Append(events, "close")
    /\ pc' = "wait"
    /\ UNCHANGED <<readerVars, iterVars, driverVars, ctor_kw, make_kw, self, data,
                   written, result, err, stderr, wlist, platform, net, dresult>>

\* communicate returning 0 whatever the wait gave
Wait_ReturnsZero ==
    /\ pc = "wait"
    /\ \E st \in ExitStatuses : proc' = [proc EXCEPT !.waits = Append(@, st)]
    /\ result' = <<0>>
    /\ events' = Append(events, "wait")
    /\ pc' = "returned"
    /\ UNCHANGED <<readerVars, iterVars, driverVars, ctor_kw, make_kw, self, data,
                   written, err, stderr, wlist, platform, net, dresult>>

\* communicate, lines 117 and 136, and make, line 150: return proc.wait()
Wait ==
    /\ pc = "wait"
    /\ \E st \in ExitStatuses :
          /\ proc' = [proc EXCEPT !.waits = Append(@, st)]
          /\ result' = <<st>>
    /\ events' = Append(events, "wait")
    /\ pc' = "returned"
    /\ UNCHANGED <<readerVars, iterVars, driverVars, ctor_kw, make_kw, self, data,
                   written, err, stderr, wlist, platform, net, dresult>>

PumpNext ==
    \/ Construct
    \/ MakeSetOptions
    \/ OpenProcess
    \/ FirstRead
    \/ Select
    \/ Write
    \/ Flush
    \/ Read
    \/ Close
    \/ Wait

----------------------------------------------------------------------------
(* download_and_make: the run of make on a stream opened from a URL *)

Diagnostic == "makeblastdb exited with error"

\* download_and_make, lines 210-211: urlopen and the half-close of the socket;
\* urlopen raises URLError when the transfer cannot start
UrlOpen ==
    /\ pc = "urlopen"
    /\ \/ net' = "open" /\ pc' = "new" /\ err' = err
       \/ net' = net /\ pc' = "raised" /\ err' = "URLError"
    /\ UNCHANGED <<readerVars, iterVars, driverVars, ctor_kw, make_kw, self, data,
                   proc, events, written, result, stderr, wlist, platform, dresult>>

\* download_and_make, line 213: stream.close(), reached when make has returned
StreamClose ==
    /\ pc = "returned"
    /\ net = "open"
    /\ net' = "closed"
    /\ pc' = "report"
    /\ UNCHANGED <<readerVars, iterVars, driverVars, ctor_kw, make_kw, self, data,
                   proc, events, written, result, err, stderr, wlist, platform,
                   dresult>>

\* download_and_make, lines 215-218: the diagnostic and the return of r
Report ==
    /\ pc = "report"
    /\ stderr' = IF result[1] > 0 THEN Append(stderr, Diagnostic) ELSE stderr
    /\ dresult' = result
    /\ pc' = "done"
    /\ UNCHANGED <<readerVars, iterVars, driverVars, ctor_kw, make_kw, self, data,
                   proc, events, written, result, err, wlist, platform, net>>

DownloadNext ==
    \/ UrlOpen
    \/ PumpNext
    \/ StreamClose
    \/ Report

----------------------------------------------------------------------------
(* StreamGunZip as an iterator *)

\* StreamGunZip.next
GunZipNext ==
    /\ rpc = "iter"
    /\ LET rd == GunZipDecompress(stream, zs, rchunk) IN
          /\ stream' = rd.stream
          /\ zs' = rd.zs
          /\ IF ~rd.ok
             THEN rpc' = "raised" /\ chunks' = chunks
             ELSE IF Truthy(rd.data)
                  THEN rpc' = "iter" /\ chunks' = chunks \o rd.data
                  ELSE rpc' = "stopped" /\ chunks' = chunks
    /\ UNCHANGED <<input, rchunk, pumpVars, driverVars>>

----------------------------------------------------------------------------
(* The batch driver: main of script/get_genomes.py *)

Species == {"s1", "s2"}

\* sorted(repository.keys())
SpeciesOrder == <<"s1", "s2">>

\* the trailing segment of an assembly's FTP path
AssemblyNames ==
    {[prefix |-> "GCA", id |-> 1], [prefix |-> "GCF", id |-> 1], [prefix |-> "GCF", id |-> 2]}

\* AssemblyReference.type
AssemblyType(name) == IF name.prefix = "GCA" THEN "GenBank" ELSE "RefSeq"

\* the assemblies of one species in an AssemblyRepository: no path twice
AssemblyLists ==
    {l \in SeqsUpTo(AssemblyNames, MaxAssemblies) :
        \A i, j \in 1..Len(l) : l[i] = l[j] => i = j}

RECURSIVE SumLen(_, _)
SumLen(f, D) ==
    IF D = {} THEN 0
    ELSE LET d == CHOOSE x \in D : TRUE IN Len(f[d]) + SumLen(f, D \ {d})

\* an AssemblyRepository; a species with no path is not a key of it
Repositories ==
    {rep \in [Species -> AssemblyLists] : SumLen(rep, Species) <= MaxAssemblies}

RepoSize(rep) == SumLen(rep, Species)

\* the repositories of n queries that hold at most m assembly paths in all
RECURSIVE BatchesOf(_, _)
BatchesOf(n, m) ==
    IF n = 0 THEN {<<>>}
    ELSE UNION {{<<rep>> \o rest : rep \in {x \in Repositories : RepoSize(x) = j},
                                   rest \in BatchesOf(n - 1, m - j)} : j \in 0..m}

Batches == UNION {BatchesOf(n, MaxAssemblies) : n \in 1..MaxQueries}

\* main downloading every assembly of the species
Chosen_All(assemblies) == assemblies

\* main, lines 84-87: GenBank assemblies only when the species has no RefSeq
Chosen(assemblies) ==
    IF \E i \in 1..Len(assemblies) : AssemblyType(assemblies[i]) = "RefSeq"
    THEN LET IsRefSeq(x) == AssemblyType(x) = "RefSeq" IN SelectSeq(assemblies, IsRefSeq)
    ELSE assemblies

\* main, lines 78-90, for one species of one query: what the inner loop visits
SpeciesPlan(q, rep, flt, sp) ==
    IF sp \in flt \/ Len(rep[sp]) = 0 THEN <<>>
    ELSE LET a == Chosen(rep[sp])
         IN  [i \in 1..Len(a) |-> [query |-> q, species |-> sp, name |-> a[i]]]

\* main, lines 76-90: the assemblies visited, in order
RECURSIVE PlanFrom(_, _, _)
PlanFrom(b, flt, q) ==
    IF q > Len(b) THEN <<>>
    ELSE Flatten([k \in 1..Len(SpeciesOrder) |-> SpeciesPlan(q, b[q], flt, SpeciesOrder[k])])
         \o PlanFrom(b, flt, q + 1)

PlanOf(b, flt) == PlanFrom(b, flt, 1)

\* "while counter < 3"
Attempts == 3

\* what one call of download_and_make can do to main
Returned(st) == [kind |-> "return", status |-> st]
TimedOut     == [kind |-> "URLError110", status |-> 0]
UrlFailed    == [kind |-> "URLError", status |-> 0]
Failed       == [kind |-> "error", status |-> 0]

\* main, lines 72-77: read the options, start on the first assembly
Start ==
    /\ dpc = "start"
    /\ plan' = PlanOf(batch, filter)
    /\ calls' = [i \in 1..Len(PlanOf(batch, filter)) |-> <<>>]
    /\ idx' = 1
    /\ counter' = 0
    /\ dpc' = IF Len(PlanOf(batch, filter)) = 0 THEN "done" ELSE "try"
    /\ exitinfo' = IF Len(PlanOf(batch, filter)) = 0
                   THEN [kind |-> "return", value |-> 0] ELSE exitinfo
    /\ UNCHANGED <<readerVars, iterVars, pumpVars, batch, filter, r, stdout>>

\* the retry loop with "while counter <= 3"
AfterPass_OneMore(c) == IF c <= Attempts THEN "try" ELSE "check"

\* where the while loop of line 95 goes after a pass that left counter at c
AfterPass(c) == IF c < Attempts THEN "try" ELSE "check"

\* main, lines 95-115: one pass of the retry loop
Attempt ==
    /\ dpc = "try"
    /\ \/ \E st \in ExitStatuses :
             /\ r' = <<st>>
             /\ calls' = [calls EXCEPT ![idx] = Append(@, Returned(st))]
             /\ dpc' = "check"
             /\ UNCHANGED <<counter, exitinfo>>
       \/ /\ calls' = [calls EXCEPT ![idx] = Append(@, TimedOut)]
          /\ counter' = counter + 1
          /\ dpc' = AfterPass(counter + 1)
          /\ UNCHANGED <<r, exitinfo>>
       \/ /\ calls' = [calls EXCEPT ![idx] = Append(@, UrlFailed)]
          /\ dpc' = "raised"
          /\ exitinfo' = [kind |-> "URLError", value |-> 0]
          /\ UNCHANGED <<r, counter>>
       \/ /\ calls' = [calls EXCEPT ![idx] = Append(@, Failed)]
          /\ dpc' = "raised"
          /\ exitinfo' = [kind |-> "error", value |-> 0]
          /\ UNCHANGED <<r, counter>>
    /\ UNCHANGED <<readerVars, iterVars, pumpVars, batch, filter, plan, idx, stdout>>

\* main with "if r > 0" at line 116
Check_PositiveOnly ==
    /\ dpc = "check"
    /\ IF r = <<>>
       THEN /\ dpc' = "raised"
            /\ exitinfo' = [kind |-> "UnboundLocalError", value |-> 0]
            /\ UNCHANGED <<idx, counter, stdout>>
       ELSE IF r[1] > 0
       THEN /\ dpc' = "exited"
            /\ exitinfo' = [kind |-> "exit", value |-> r[1]]
            /\ UNCHANGED <<idx, counter, stdout>>
       ELSE /\ stdout' = Append(stdout, plan[idx])
            /\ idx' = idx + 1
            /\ counter' = 0
            /\ dpc' = IF idx = Len(plan) THEN "done" ELSE "try"
            /\ exitinfo' = IF idx = Len(plan)
                           THEN [kind |-> "return", value |-> 0] ELSE exitinfo
    /\ UNCHANGED <<readerVars, iterVars, pumpVars, batch, filter, plan, r, calls>>

\* main, lines 116-119 and the loop headers: test r, write the line, go on
Check ==
    /\ dpc = "check"
    /\ IF r = <<>>
       THEN /\ dpc' = "raised"
            /\ exitinfo' = [kind |-> "UnboundLocalError", value |-> 0]
            /\ UNCHANGED <<idx, counter, stdout>>
       ELSE IF r[1] # 0
       THEN /\ dpc' = "exited"
            /\ exitinfo' = [kind |-> "exit", value |-> r[1]]
            /\ UNCHANGED <<idx, counter, stdout>>
       ELSE /\ stdout' = Append(stdout, plan[idx])
            /\ idx' = idx + 1
            /\ counter' = 0
            /\ dpc' = IF idx = Len(plan) THEN "done" ELSE "try"
            /\ exitinfo' = IF idx = Len(plan)
                           THEN [kind |-> "return", value |-> 0] ELSE exitinfo
    /\ UNCHANGED <<readerVars, iterVars, pumpVars, batch, filter, plan, r, calls>>

DriverNext ==
    \/ Start
    \/ Attempt
    \/ Check

----------------------------------------------------------------------------
(* Initial states *)

SourceInit(srcs) ==
    /\ input \in srcs
    /\ stream = input.raw
    /\ zs = ZInit

IterIdle == rpc = "idle" /\ rchunk = 1 /\ chunks = <<>>

PumpStart ==
    /\ self = set_defaults(Executable(platform))
    /\ data = <<>>
    /\ proc = NoProc
    /\ events = <<>>
    /\ written = <<>>
    /\ result = <<>>
    /\ err = "None"
    /\ stderr = <<>>
    /\ wlist = <<>>
    /\ net = "none"
    /\ dresult = <<>>

PumpIdle ==
    /\ pc = "idle"
    /\ platform = "Linux"
    /\ ctor_kw = NoKwargs
    /\ make_kw = NoKwargs
    /\ PumpStart

DriverStart ==
    /\ plan = <<>>
    /\ idx = 0
    /\ counter = 0
    /\ r = <<>>
    /\ calls = <<>>
    /\ stdout = <<>>
    /\ exitinfo = [kind |-> "None", value |-> 0]

DriverIdle ==
    /\ dpc = "idle"
    /\ batch = <<>>
    /\ filter = {}
    /\ DriverStart

\* a run of the pump: the stream options vary, over every source
Init ==
    /\ SourceInit(Sources)
    /\ IterIdle
    /\ DriverIdle
    /\ pc = "new"
    /\ platform = "Linux"
    /\ ctor_kw \in Kwargs({"decompress", "chunk_size", UnknownName},
                          Cardinality(OptionNames), 1..MaxChunk)
    /\ make_kw = NoKwargs
    /\ PumpStart

Next == PumpNext

Spec == Init /\ [][Next]_vars

\* select reports stdin writable
Ready == Select /\ InWlist(wlist')

\* communicate is one thread that runs each statement it reaches, and the
\* child's stdin is reported writable again and again
Fairness == WF_vars(Next) /\ SF_vars(Ready)

\* a run of the pump with decompress left at its default, False
InitLive ==
    /\ SourceInit(Sources)
    /\ IterIdle
    /\ DriverIdle
    /\ pc = "new"
    /\ platform = "Linux"
    /\ ctor_kw \in Kwargs({"chunk_size", UnknownName}, Cardinality(OptionNames),
                          1..MaxChunk)
    /\ make_kw = NoKwargs
    /\ PumpStart

SpecLive == InitLive /\ [][Next]_vars /\ Fairness

\* iteration of a StreamGunZip over every source
InitReader ==
    /\ SourceInit(Sources)
    /\ rpc = "iter"
    /\ rchunk \in (1..MaxChunk) \cup {1024}
    /\ chunks = <<>>
    /\ PumpIdle
    /\ DriverIdle

NextReader == GunZipNext

SpecReader == InitReader /\ [][NextReader]_vars

\* a run over every combination of option names, on the smallest sources
ConfigSources ==
    {src \in Sources : src.kind = "empty" \/ (src.kind = "gzip" /\ Len(src.raw) = Len(Compress(<<>>)))}

InitConfig ==
    /\ SourceInit(ConfigSources)
    /\ IterIdle
    /\ DriverIdle
    /\ pc = "new"
    /\ platform \in Platforms
    /\ ctor_kw \in Kwargs(OptionNames \cup {UnknownName}, MaxCtorKw, {MaxChunk})
    /\ make_kw \in Kwargs(OptionNames \cup {UnknownName}, MaxMakeKw, {MaxChunk})
    /\ PumpStart

SpecConfig == InitConfig /\ [][Next]_vars

\* download_and_make over every source: kwargs go to the constructor (line
\* 198) and compiler.make() is called without any (line 201)
InitDownload ==
    /\ SourceInit(Sources)
    /\ IterIdle
    /\ DriverIdle
    /\ pc = "urlopen"
    /\ platform = "Linux"
    /\ ctor_kw \in Kwargs({"decompress", "chunk_size", UnknownName},
                          Cardinality(OptionNames), 1..MaxChunk)
    /\ make_kw = NoKwargs
    /\ PumpStart

SpecDownload == InitDownload /\ [][DownloadNext]_vars

\* main over every batch and filter
InitDriver ==
    /\ SourceInit({EmptySource})
    /\ IterIdle
    /\ PumpIdle
    /\ dpc = "start"
    /\ batch \in Batches
    /\ filter \in SUBSET Species
    /\ DriverStart

SpecDriver == InitDriver /\ [][DriverNext]_vars

----------------------------------------------------------------------------
(* Properties *)

Count(s, x) == Cardinality({i \in 1..Len(s) : s[i] = x})

\* the first _read() of communicate returns an empty chunk
FirstChunkEmpty ==
    LET rd == ReadChunk(self, input.raw, ZInit) IN rd.ok /\ ~Truthy(rd.data)

\* communicate has made its first read
FirstReadDone == Len(events) >= 2

\* C1: with decompress on and a gzip source, an empty decompressed chunk does
\* not end the pump early: once the pump has closed the child's stdin, the
\* bytes written are the whole decompressed payload
C1_PumpDeliversAll ==
    (self.decompress /\ input.kind = "gzip" /\ proc.stdin = "closed")
        => written = Payload(input)

\* C2: iterating a StreamGunZip over one gzip member with next() until it
\* raises StopIteration yields exactly the payload
C2_RoundTrip ==
    (rpc = "stopped" /\ input.kind = "gzip") => chunks = Payload(input)

\* C3: iterating over two concatenated gzip members yields both payloads
\* (stated where no chunk but the last can be empty: the first member holds
\* data and one read takes in the whole source)
C3_MultiMember ==
    (/\ rpc = "stopped"
     /\ input.kind = "multi"
     /\ Len(input.members[1]) > 0
     /\ rchunk >= Len(input.raw))
        => chunks = Payload(input)

\* C4: when a read fails with a decompression error, the child's stdin has
\* been closed and the child waited on by the time the error leaves the run
C4_NoLeakOnDecompressError ==
    (pc = "raised" /\ err = "zlib.error")
        => (proc.stdin = "closed" /\ Len(proc.waits) = 1)

\* C5: when the first chunk is empty the pump never writes, goes straight to
\* the close and the wait, and returns the status the wait gave
C5_EmptyFirstChunk ==
    (FirstReadDone /\ FirstChunkEmpty) =>
        /\ pc \in {"close", "wait", "returned"}
        /\ Len(written) = 0
        /\ Count(events, "write") = 0
        /\ err = "None"
        /\ pc = "returned" =>
              /\ events = <<"spawn", "read", "close", "wait">>
              /\ proc.stdin = "closed"
              /\ Len(result) = 1
              /\ result = proc.waits

C5_Witness ==
    /\ pc = "returned"
    /\ FirstChunkEmpty
    /\ input.kind = "empty"
    /\ result = <<1>>

\* C6: an unknown option name, given to the constructor or to make, ends the
\* run in ValueError, and no run that ends so has spawned a process
C6_UnknownOptionBeforeSpawn ==
    /\ err = "ValueError" => (proc.spawned = 0 /\ proc.stdin = "none" /\ Len(events) = 0)
    /\ (UnknownName \in ctor_kw.keys /\ pc # "new")
          => (pc = "raised" /\ err = "ValueError")
    /\ (UnknownName \in make_kw.keys /\ pc \notin {"new", "constructed"})
          => (pc = "raised" /\ err = "ValueError")

C6_Witness ==
    /\ pc = "raised"
    /\ err = "ValueError"
    /\ UnknownName \notin ctor_kw.keys
    /\ UnknownName \in make_kw.keys
    /\ "out" \in ctor_kw.keys
    /\ self.out = "x"
    /\ proc.spawned = 0

\* the options as the caller gave them: make's override the constructor's
Given(k) == k \in ctor_kw.keys \cup make_kw.keys
GivenTrue(k) ==
    IF k \in make_kw.keys THEN make_kw[k]
    ELSE IF k \in ctor_kw.keys THEN ctor_kw[k] ELSE FALSE
Width(k) == IF Given(k) THEN 2 ELSE 0

\* C7: the argument list the child is spawned with is the executable, "-in"
\* and the input, then -out, -title, -dbtype with their values, each only when
\* given and in this order, then -parse_seqids only when it is true
C7_CommandArgs ==
    proc.spawned = 1 =>
        LET a == proc.args
            o == 4
            t == o + Width("out")
            d == t + Width("title")
            p == d + Width("dbtype")
        IN  /\ a[1] = self.executable
            /\ a[2] = "-in"
            /\ a[3] = (IF Given("input") THEN "f.fa" ELSE "-")
            /\ Given("out") => (a[o] = "-out" /\ a[o + 1] = "x")
            /\ Given("title") => (a[t] = "-title" /\ a[t + 1] = "x")
            /\ Given("dbtype") => (a[d] = "-dbtype" /\ a[d + 1] = "nucl")
            /\ GivenTrue("parse_seqids") => a[p] = "-parse_seqids"
            /\ Len(a) = (p - 1) + (IF GivenTrue("parse_seqids") THEN 1 ELSE 0)
            /\ (/\ ctor_kw.keys \cup make_kw.keys
                      = {"dbtype", "parse_seqids", "out", "title"}
                /\ GivenTrue("parse_seqids"))
                  => a = <<self.executable, "-in", "-", "-out", "x", "-title", "x",
                           "-dbtype", "nucl", "-parse_seqids">>

C7_Witness ==
    /\ ctor_kw.keys = {"dbtype", "parse_seqids", "out", "title"}
    /\ make_kw.keys = {}
    /\ platform = "Windows"
    /\ proc.args = <<"makeblastdb.exe", "-in", "-", "-out", "x", "-title", "x",
                     "-dbtype", "nucl", "-parse_seqids">>

\* C8: on the child, nothing but the wait follows the close, the wait follows
\* the close at once, and a run that returns has spawned once, closed once,
\* waited once and returns the status of that wait
C8_CloseThenWait ==
    /\ \A i \in 1..Len(events) :
          /\ events[i] = "close" => \A j \in (i + 1)..Len(events) : events[j] = "wait"
          /\ events[i] = "wait" => (i > 1 /\ events[i - 1] = "close")
          /\ events[i] = "spawn" => i = 1
    /\ Count(events, "close") <= 1
    /\ Count(events, "wait") <= 1
    /\ Len(result) = 1 =>
          /\ pc = "returned"
          /\ events[1] = "spawn"
          /\ proc.spawned = 1
          /\ Count(events, "close") = 1
          /\ Count(events, "wait") = 1
          /\ events[Len(events)] = "wait"
          /\ proc.stdin = "closed"
          /\ result = proc.waits

C8_Witness ==
    /\ pc = "returned"
    /\ Count(events, "write") >= 2
    /\ result = <<-9>>

\* C9: each write comes right after a select that reported stdin writable, a
\* flush comes right after each write, and each later read right after a flush
C9_ReadyWriteFlush ==
    /\ \A i \in 1..Len(events) :
          /\ events[i] = "write" => (i > 1 /\ events[i - 1] = "ready")
          /\ (events[i] = "write" /\ i < Len(events)) => events[i + 1] = "flush"
          /\ events[i] = "flush" => events[i - 1] = "write"
          /\ (events[i] = "read" /\ i > 2) => events[i - 1] = "flush"
    /\ pc = "write" => (InWlist(wlist) /\ events[Len(events)] = "ready")
    /\ pc = "read" => events[Len(events)] = "flush"

C9_Witness ==
    /\ pc = "returned"
    /\ Count(events, "write") >= 2
    /\ Count(events, "ready") = Count(events, "write")
    /\ events[Len(events) - 3] = "flush"

\* every call of download_and_make for plan[i] met the transient URLError
GaveUp(i) ==
    /\ Len(calls[i]) = Attempts
    /\ \A k \in 1..Attempts : calls[i][k] = TimedOut

\* C10: after three transient failures on one assembly main stays on that
\* assembly and ends with the error: no stdout line for it, no next assembly
C10_GiveUpPropagates ==
    \A i \in 1..Len(calls) :
        GaveUp(i) =>
            /\ idx = i
            /\ Len(stdout) < i
            /\ dpc \in {"check", "raised"}

\* the last outcome of download_and_make for plan[i]
LastCall(i) == calls[i][Len(calls[i])]

\* the call of download_and_make for plan[i] that returned, if any, gave st
ReturnedStatus(i, st) ==
    /\ Len(calls[i]) > 0
    /\ LastCall(i) = Returned(st)

\* C11: stdout holds a line for plan[i] exactly when the assembly's own call
\* of download_and_make returned 0 (the line follows the return at once)
C11_LinesForSuccesses ==
    \A i \in 1..Len(calls) :
        /\ i <= Len(stdout) => (stdout[i] = plan[i] /\ ReturnedStatus(i, 0))
        /\ ReturnedStatus(i, 0) => (i <= Len(stdout) \/ (idx = i /\ dpc = "check"))

\* C12: a non-zero status returned for plan[i] is the last thing done for the
\* batch: main is on plan[i], exits with that status, has written no line for
\* plan[i] and has called download_and_make for no later assembly
C12_NonZeroIsFatal ==
    \A i \in 1..Len(calls) : \A k \in 1..Len(calls[i]) :
        (calls[i][k].kind = "return" /\ calls[i][k].status # 0) =>
            /\ k = Len(calls[i])
            /\ idx = i
            /\ Len(stdout) < i
            /\ dpc \in {"check", "exited"}
            /\ dpc = "exited" => exitinfo = [kind |-> "exit", value |-> calls[i][k].status]
            /\ \A j \in (i + 1)..Len(calls) : Len(calls[j]) = 0

C12_Witness ==
    /\ dpc = "exited"
    /\ exitinfo.value = -9
    /\ Len(plan) = 2
    /\ idx = 1
    /\ Len(calls[1]) = 2

\* C17: at most three calls per assembly; every call but the last met the
\* transient URLError; any other URLError ends main at once with that error;
\* a call that returned is the last for its assembly
C17_RetryPolicy ==
    \A i \in 1..Len(calls) :
        /\ Len(calls[i]) <= 3
        /\ \A k \in 1..Len(calls[i]) :
              /\ k < Len(calls[i]) => calls[i][k] = TimedOut
              /\ calls[i][k] = UrlFailed =>
                    (dpc = "raised" /\ exitinfo.kind = "URLError" /\ idx = i)
              /\ calls[i][k].kind = "return" => k = Len(calls[i])
        /\ (i < idx /\ ~GaveUp(i)) => LastCall(i).kind = "return"

C17_Witness ==
    /\ dpc = "raised"
    /\ exitinfo.kind = "URLError"
    /\ idx = 2
    /\ calls[1] = <<TimedOut, TimedOut, Returned(0)>>
    /\ calls[2] = <<TimedOut, UrlFailed>>

\* the assemblies the repository of query q holds for species sp
Held(q, sp) == {batch[q][sp][n] : n \in 1..Len(batch[q][sp])}

HasRefSeq(q, sp) == \E a \in Held(q, sp) : a.prefix # "GCA"

\* main may download assembly a of species sp for query q
Wanted(q, sp, a) ==
    /\ sp \notin filter
    /\ a \in Held(q, sp)
    /\ a.prefix = "GCA" => ~HasRefSeq(q, sp)

\* C19: what main visits, downloads and reports are assemblies of species
\* outside the filter, RefSeq ones when the species has any and GenBank ones
\* only when it has none; all such assemblies are visited
C19_RefSeqPreferred ==
    dpc # "start" =>
        /\ \A i \in 1..Len(plan) : Wanted(plan[i].query, plan[i].species, plan[i].name)
        /\ \A q \in 1..Len(batch) : \A sp \in Species : \A a \in Held(q, sp) :
              Wanted(q, sp, a) =>
                  \E i \in 1..Len(plan) :
                      plan[i] = [query |-> q, species |-> sp, name |-> a]
        /\ \A i \in 1..Len(stdout) : stdout[i].species \notin filter
        /\ \A i \in 1..Len(calls) : Len(calls[i]) > 0 => plan[i].species \notin filter

C19_Witness ==
    /\ dpc = "done"
    /\ filter = {"s1"}
    /\ \E a \in Held(1, "s2") : a.prefix = "GCA"
    /\ Len(stdout) = 1
    /\ stdout[1].species = "s2"
    /\ stdout[1].name.prefix = "GCF"

\* download_and_make has ended: it returned, or an exception left it
DownloadEnded == pc = "done" \/ (pc = "raised" /\ net # "none")

\* C13: download_and_make returns the status the wait gave, and writes its
\* diagnostic exactly when that status is not zero
C13_StatusAndDiagnostic ==
    pc = "done" =>
        /\ dresult = <<proc.waits[Len(proc.waits)]>>
        /\ Count(stderr, Diagnostic) = (IF dresult[1] # 0 THEN 1 ELSE 0)

\* C14: when download_and_make has ended, by a return or by an exception of
\* the compile, the response it opened is closed
C14_StreamClosedOnEveryPath == DownloadEnded => net = "closed"

\* the non-empty chunks successive reads give before the first empty one
RECURSIVE ChunksRead(_, _, _)
ChunksRead(obj, s, z) ==
    LET rd == ReadChunk(obj, s, z)
    IN  IF rd.ok /\ Truthy(rd.data)
        THEN <<rd.data>> \o ChunksRead(obj, rd.stream, rd.zs)
        ELSE <<>>

Reads == Count(events, "read")
Writes == Count(events, "write")

\* what was written is the first chunks read, one write each, in order; the
\* chunk in data is the next one and no read runs ahead of its write
C15_WritesFollowReads ==
    LET exp == ChunksRead(self, input.raw, ZInit) IN
        /\ Writes <= Len(exp)
        /\ written = Flatten(SubSeq(exp, 1, Writes))
        /\ pc \in {"select", "write"} =>
              (Writes < Len(exp) /\ data = exp[Writes + 1] /\ Reads = Writes + 1)
        /\ pc \in {"flush", "read"} => Reads = Writes
        /\ pc \in {"close", "wait", "returned"} =>
              (Writes = Len(exp) /\ Reads = Writes + 1)

\* a pass in which stdin was not reported writable changes nothing but wlist,
\* and a read is made only at the first read or after a write and its flush
C15_BusyPassKeepsChunk ==
    /\ (pc = "select" /\ pc' = "select") =>
          (data' = data /\ stream' = stream /\ events' = events /\ written' = written)
    /\ stream' # stream => pc \in {"first_read", "read"}

\* C15: every non-empty chunk read is written exactly once and in the order
\* read, a pass without writable stdin keeps the pending chunk and reads
\* nothing, and the writes are the non-empty chunks before the first empty one
C15_EachChunkWrittenOnce == []C15_WritesFollowReads /\ [][C15_BusyPassKeepsChunk]_vars

C15_Witness ==
    /\ pc = "select"
    /\ wlist = <<>>
    /\ Writes = 1
    /\ Len(ChunksRead(self, input.raw, ZInit)) = 2
    /\ data = ChunksRead(self, input.raw, ZInit)[2]

\* the number of non-empty chunks a source of raw bytes holds
NonEmptyChunks == (Len(input.raw) + self.chunk_size - 1) \div self.chunk_size

C16_ReadBound == ~self.decompress => Reads <= NonEmptyChunks + 1

Rejected == err = "None" /\ err' = "ValueError"

\* the keyword arguments of the set_options call made at this step
PassedKw == IF pc = "new" THEN ctor_kw ELSE make_kw

\* the field of the object that option name k sets
FieldOf(k) == IF k = "input" THEN "_in" ELSE k

\* C18, as stated: a rejected set_options call leaves every configuration
\* field at the value it had before the call
C18_RejectedLeavesFields == [][Rejected => self' = self]_vars

\* C18, amended: a rejected set_options call leaves unchanged every field
\* whose option was not passed in the call, and leaves each field whose
\* option was passed either unchanged or set to the value passed
C18_RejectedTouchesOnlyPassed ==
    [][Rejected =>
          /\ self'.executable = self.executable
          /\ \A k \in OptionNames :
                /\ k \notin PassedKw.keys => self'[FieldOf(k)] = self[FieldOf(k)]
                /\ self'[FieldOf(k)] \in {self[FieldOf(k)], PassedKw[k]}]_vars

C18_Witness ==
    /\ pc = "raised"
    /\ err = "ValueError"
    /\ {UnknownName, "out", "title"} \subseteq ctor_kw.keys
    /\ self.out = "x"
    /\ self.title = "None"

====
